---- MODULE Spec2Model ----
(***************************************************************************)
(* The task export of oh-my-minds (src/index.js, src/services.js): login,  *)
(* page through the resolved and the pending listing of every job of every *)
(* configured sheet, enrich every listed task with its details and its     *)
(* questionnaire answers in batches, flatten to rows, clear and rewrite    *)
(* the sheet.  One action per event-loop callback: the arrival of a        *)
(* response (or the firing of a retry timer) together with every           *)
(* continuation that runs before the next suspension point.                *)
(***************************************************************************)
EXTENDS Integers, Sequences, FiniteSets, TLC

VARIABLES
    cfg,      \* configuration of the run and the sizes the remote side stays within
    env,      \* the remote side: failures and tasks it can still produce, next task id
    api,      \* the shared axios instance of services.js: auth header, interceptors
    doc,      \* the spreadsheet: whether it exists, its sheet titles, each sheet's cells
    m,        \* main() and the paginated fetch it awaits: position, locals, accumulators
    call,     \* the getTasksWithDetails frame: active, loop index i, taskDetailsData
    slots     \* one entry per task of the call's taskList: its async callback's position

vars == <<cfg, env, api, doc, m, call, slots>>

----------------------------------------------------------------------------
(* Program constants *)

BATCH_SIZE == 5
DEFAULT_RETRIES == 10
LIMIT == 10

TQ_QUESTIONTITLE_NAME == "Name"
TQ_QUESTIONTITLE_CLASS == "Class"

HEADERS == <<"Job ID", "Task ID", "Submit Date", "Name", "Class", "File Name", "Answer">>

(* Bounds of the model *)

MaxPages == 2          \* the listing stops signalling next at this page
FewPages == 1          \* the same, when shapes, batching or retrying are examined
MaxTasks == 2          \* tasks listed in one run (general specification)
MaxPageTasks == 2      \* entries on one page (general specification)
MaxFailures == 1       \* failing requests in one run (general specification)
BigPage == 6           \* entries on one page when batching is examined
RetryFailures == 11    \* failing requests in one run when retrying is examined
ShapeTasks == 1        \* tasks listed in one run when response shapes are examined

----------------------------------------------------------------------------
(* Values *)

Min(a, b) == IF a < b THEN a ELSE b

RECURSIVE SumSeq(_)
SumSeq(s) == IF s = <<>> THEN 0 ELSE Head(s) + SumSeq(Tail(s))

RECURSIVE Concat(_)
Concat(ss) == IF ss = <<>> THEN <<>> ELSE Head(ss) \o Concat(Tail(ss))

\* JavaScript values that a field of an EnrichedTask can hold.
JsUndefined == [t |-> "undefined", v |-> <<>>]
JsZero == [t |-> "number", v |-> <<>>]
JsArray(s) == [t |-> "array", v |-> s]
\* The values an answer can hold: a string, or null (a question left open).
JsNull == [t |-> "null", v |-> <<>>]
JsString(s) == [t |-> "string", v |-> s]
\* ToBoolean of such a value: undefined, null, 0 and '' are falsy.
Truthy(x) == x.t = "array" \/ (x.t = "string" /\ x.v # "")
IsArray(x) == x.t = "array"

\* A thrown value: where it came from (op, id, n-th request of that lookup).
Err(kind, status, op, id, n) ==
    [kind |-> kind, status |-> status, op |-> op, id |-> id, n |-> n]
NoErr == Err("none", 0, "", 0, 0)

\* The rejection axios produces for a request answered with `status`.
AxiosError(status, op, id, n) == Err("AxiosError", status, op, id, n)

\* handleError: the response interceptor turns the axios error into the
\* structured errorData {message, status, details} and throws that.
handleError(error) == [error EXCEPT !.kind = "errorData"]

\* What a rejected api.get surfaces: the interceptor applies once login
\* installed it.
Rejection(a, error) == IF a.interceptor THEN handleError(error) ELSE error

NoStamp == [k |-> "none", day |-> 0, hour |-> 0]
BadStamp == [k |-> "bad", day |-> 0, hour |-> 0]
Stamp(d, h) == [k |-> "iso", day |-> d, hour |-> h]

Item(jobId, id, k) ==
    [job_id |-> jobId, user_task_id |-> id, filename |-> 10 * id + k, tags |-> "tag"]

\* The body of a detail response: n < 0 stands for a body without items.
DetailBody(jobId, id, n, stamp) ==
    [items |-> IF n < 0 THEN JsUndefined
               ELSE JsArray([k \in 1..n |-> Item(jobId, id, k)]),
     submitted_at |-> stamp]

QA(title, answer) == [title |-> title, answer |-> answer]

NoEnriched ==
    [src |-> 0, submittedAt |-> NoStamp, items |-> JsUndefined,
     taskQuestionAnswers |-> JsUndefined]

\* The object the per-task callback returns (services.js 140-152).  `src`
\* records the task whose responses it was built from.
\* data && data.length && data.map(...): undefined stays undefined, an empty
\* list gives its length 0, a non-empty list gives the mapped list.
Answers(data) ==
    IF ~IsArray(data) THEN data
    ELSE IF Len(data.v) = 0 THEN JsZero
    ELSE JsArray([k \in 1..Len(data.v) |->
                    QA(data.v[k].title, data.v[k].answer)])

Enriched(id, details, qdata) ==
    [src |-> id,
     submittedAt |-> details.submitted_at,
     items |-> details.items,
     taskQuestionAnswers |-> Answers(qdata)]

----------------------------------------------------------------------------
(* Row flattening (index.js 107-120, 184-211) *)

FormatDay(d) ==
    CASE d = 19 -> "19/09/2024"
      [] d = 20 -> "20/09/2024"
      [] OTHER -> "21/09/2024"

\* Faulty variant: a falsy input is reported as 'Invalid Date' too.
formatDateStrict(dateString) ==
    IF dateString.k \in {"none", "bad"} THEN "Invalid Date"
    ELSE FormatDay(dateString.day + ((dateString.hour + 8) \div 24))

\* formatDate: '' for a falsy input, 'Invalid Date' for an unparsable one,
\* else the calendar day in Asia/Singapore (UTC+8).
formatDate(dateString) ==
    IF dateString.k = "none" THEN ""
    ELSE IF dateString.k = "bad" THEN "Invalid Date"
    ELSE FormatDay(dateString.day + ((dateString.hour + 8) \div 24))

\* Array.prototype.find on the answers, then `x && x.answer ? x.answer : ''`.
\* The text of a string answer is what lands in the row.
FindAnswer(tqa, title) ==
    LET hits == {k \in 1..Len(tqa) : tqa[k].title = title}
    IN  IF hits = {} THEN ""
        ELSE LET k == CHOOSE h \in hits : \A g \in hits : h <= g
             IN  IF Truthy(tqa[k].answer) THEN tqa[k].answer.v ELSE ""

\* The rows one task contributes; defined when TaskThrows(task) is false.
TaskRows(task) ==
    LET name == FindAnswer(task.taskQuestionAnswers.v, TQ_QUESTIONTITLE_NAME)
        className == FindAnswer(task.taskQuestionAnswers.v, TQ_QUESTIONTITLE_CLASS)
        items == task.items.v
    IN  [k \in 1..Len(items) |->
            <<items[k].job_id, items[k].user_task_id, formatDate(task.submittedAt),
              name, className, items[k].filename, items[k].tags>>]

\* .find on a value that is no array, or for...of over undefined, is a TypeError.
TaskThrows(task) == ~IsArray(task.taskQuestionAnswers) \/ ~IsArray(task.items)

FlattenThrows(tasks) == \E k \in 1..Len(tasks) : TaskThrows(tasks[k])

Flatten(tasks) == Concat([k \in 1..Len(tasks) |-> TaskRows(tasks[k])])

----------------------------------------------------------------------------
(* main() and the paginated fetch (index.js 123-220, services.js 62-124) *)

SheetName(c, idx) == c.mapping[idx].sheetName
JobIds(c, idx) == c.mapping[idx].jobIds

\* main() rejects with e. index.js 222 calls main() without a catch: the
\* rejection is unhandled and the process ends, non-zero, in the turn of the
\* rejection, so "aborted" is the state of a process that is over.
Abort(mm, e) == [mm EXCEPT !.pc = "aborted", !.error = e]

\* Faulty variant: the listing request goes out without the header.
ListRequestNoAuth(a, endpoint, jobId, page) ==
    [url |-> endpoint, job_id |-> jobId, page |-> page, limit |-> LIMIT,
     authorization |-> "none"]

\* api.get(<listing endpoint>, {params: {status, limit, page, job_id}}): the request
\* interceptor adds the Authorization header (services.js 47-50, 63-70, 95-103).
ListRequest(a, endpoint, jobId, page) ==
    [url |-> endpoint, job_id |-> jobId, page |-> page, limit |-> LIMIT,
     authorization |-> a.authorization]

\* Faulty variant: the following page is requested along with the page asked for.
IssueListAhead(mm, endpoint, jobIdx, page, results) ==
    [mm EXCEPT !.pc = "listing",
               !.endpoint = endpoint,
               !.jobIdx = jobIdx,
               !.currentPage = page,
               !.results = results,
               !.inflight = @ \cup
                   {ListRequest(api, endpoint, JobIds(cfg, mm.sheetIdx)[jobIdx], page),
                    ListRequest(api, endpoint, JobIds(cfg, mm.sheetIdx)[jobIdx], page + 1)},
               !.requested = IF page = 1 THEN <<1>> ELSE Append(@, page),
               !.pages = IF page = 1 THEN <<>> ELSE @]

\* A call of getJobResolvedTasksByPage / getJobPendingTasksByPage up to its
\* first await: the listing request of `page` is outstanding.  `requested`
\* and `pages` log the pages asked for and what each answered (entry count,
\* whether pages.next was set) since page 1 of this fetch.
IssueList(mm, endpoint, jobIdx, page, results) ==
    [mm EXCEPT !.pc = "listing",
               !.endpoint = endpoint,
               !.jobIdx = jobIdx,
               !.currentPage = page,
               !.results = results,
               !.inflight = @ \cup
                   {ListRequest(api, endpoint, JobIds(cfg, mm.sheetIdx)[jobIdx], page)},
               !.requested = IF page = 1 THEN <<1>> ELSE Append(@, page),
               !.pages = IF page = 1 THEN <<>> ELSE @]

\* index.js 184-215 up to the first await of writeToSheet: flatten, build the
\* values, ask for the sheet to be cleared.  Object.keys(rows[0]) throws on
\* an empty rows.
SheetFinish(mm) ==
    IF FlattenThrows(mm.tasks)
    THEN Abort(mm, Err("TypeError", 0, "flatten", 0, 0))
    ELSE LET rows == Flatten(mm.tasks)
         IN  IF rows = <<>>
             THEN Abort(mm, Err("TypeError", 0, "writeToSheet", 0, 0))
             ELSE [mm EXCEPT !.pc = "clear", !.values = <<HEADERS>> \o rows]

\* index.js 158-171: a paginated fetch returned `res` to main().  `fetched`
\* keeps the log of the fetch that returned last.
AfterFetch(mm, res) ==
    LET m1 == [mm EXCEPT !.tasks = @ \o res,
                         !.fetched = [url |-> mm.endpoint, jobIdx |-> mm.jobIdx,
                                      requested |-> mm.requested,
                                      pages |-> mm.pages, count |-> Len(res)]]
    IN  IF mm.endpoint = "resolved"
        THEN IssueList(m1, "pending", mm.jobIdx, 1, <<>>)
        ELSE IF mm.jobIdx < Len(JobIds(cfg, mm.sheetIdx))
        THEN IssueList(m1, "resolved", mm.jobIdx + 1, 1, <<>>)
        ELSE SheetFinish(m1)

\* services.js 80-90 / 113-123: getTasksWithDetails returned taskDetails.
AfterEnrich(mm, taskDetails) ==
    LET results == mm.results \o taskDetails
    IN  IF mm.pagesMissing
        THEN Abort([mm EXCEPT !.results = results],
                   Err("TypeError", 0, "paginate", 0, 0))
        ELSE IF mm.hasNext
        THEN IssueList(mm, mm.endpoint, mm.jobIdx, mm.currentPage + 1, results)
        ELSE AfterFetch([mm EXCEPT !.results = results], results)

\* index.js 135-146: the for...in loop reaches the sheet after sheetIdx.
NextSheet(mm) ==
    IF mm.sheetIdx < Len(cfg.mapping)
    THEN [mm EXCEPT !.pc = "sheetExists", !.sheetIdx = @ + 1]
    ELSE [mm EXCEPT !.pc = "done"]

\* index.js 144-153: the sheet exists; start on its jobs.
StartSheet(mm) ==
    LET m1 == [mm EXCEPT !.tasks = <<>>]
    IN  IF JobIds(cfg, mm.sheetIdx) = <<>>
        THEN SheetFinish(m1)
        ELSE IssueList(m1, "resolved", 1, 1, <<>>)

\* Faulty variant: the answer of the sheet lookup is not looked at.
AfterSheetCheckAlways(mm, sheetCheck) == StartSheet(mm)

\* index.js 138-146: skip the sheet when sheetCheck is false, else go on
\* with its jobs.
AfterSheetCheck(mm, sheetCheck) ==
    IF sheetCheck THEN StartSheet(mm) ELSE NextSheet(mm)

----------------------------------------------------------------------------
(* getTasksWithDetails and the two lookups (services.js 126-223) *)

Slot(jobId, id) ==
    [id |-> id, jobId |-> jobId, phase |-> "idle", retries |-> DEFAULT_RETRIES,
     sent |-> 0, qsent |-> 0, err |-> NoErr, details |-> DetailBody(0, 0, -1, NoStamp),
     out |-> NoEnriched]

Active(s) == s.phase \in {"detail", "delay", "quest"}

BatchLo(c) == c.i + 1
BatchHi(c, sl) == Min(c.i + BATCH_SIZE, Len(sl))

\* Faulty variant: both lookups of a task are started together.
CallDetailsBoth(s) ==
    IF s.id = 0
    THEN [s EXCEPT !.phase = "failed", !.err = Err("Error", 0, "detail", 0, 0)]
    ELSE [s EXCEPT !.phase = "detail", !.sent = @ + 1, !.qsent = @ + 1]

\* getTaskDetails up to its first await (services.js 167-173): a missing
\* userTaskId throws before any request, else request number sent+1 goes out.
CallDetails(s) ==
    IF s.id = 0
    THEN [s EXCEPT !.phase = "failed", !.err = Err("Error", 0, "detail", 0, 0)]
    ELSE [s EXCEPT !.phase = "detail", !.sent = @ + 1]

\* Faulty variant: only the userTaskId is looked at before the request.
CallQuestionnaireAnyJob(s) ==
    IF s.id = 0
    THEN [s EXCEPT !.phase = "failed", !.err = Err("Error", 0, "questionnaire", 0, 0)]
    ELSE [s EXCEPT !.phase = "quest", !.qsent = @ + 1]

\* getTaskQuestionnaireSubmission up to its await (services.js 208-218).
CallQuestionnaire(s) ==
    IF s.id = 0 \/ s.jobId = 0
    THEN [s EXCEPT !.phase = "failed", !.err = Err("Error", 0, "questionnaire", 0, 0)]
    ELSE [s EXCEPT !.phase = "quest", !.qsent = @ + 1]

\* Faulty variant: the questionnaire request is sent once more after a failure.
CatchQuestionnaireAgain(s, error) ==
    IF s.qsent < 2
    THEN [s EXCEPT !.phase = "quest", !.qsent = @ + 1]
    ELSE [s EXCEPT !.phase = "failed", !.err = error]

\* The catch block of getTaskQuestionnaireSubmission (services.js 220-222):
\* log and rethrow, whatever the error and whatever retries are left.
CatchQuestionnaire(s, error) ==
    [s EXCEPT !.phase = "failed", !.err = error]

\* Faulty variant: a new error is thrown once the retries are used up.
CatchDetailsNew(s, error) ==
    IF s.retries > 0
    THEN [s EXCEPT !.phase = "delay", !.err = error]
    ELSE [s EXCEPT !.phase = "failed", !.err = Err("Error", 0, "detail", s.id, 0)]

\* Faulty variant: a failed attempt is not counted.
CatchDetailsUncounted(s, error) ==
    [s EXCEPT !.phase = "delay", !.err = error,
              !.retries = @ + 1, !.sent = @ - 1]

\* Faulty variant: one retry fewer.
CatchDetailsShort(s, error) ==
    IF s.retries > 1
    THEN [s EXCEPT !.phase = "delay", !.err = error]
    ELSE [s EXCEPT !.phase = "failed", !.err = error]

\* The catch block of getTaskDetails (services.js 175-184): wait and retry
\* while retries > 0, else rethrow the caught error.
CatchDetails(s, error) ==
    IF s.retries > 0
    THEN [s EXCEPT !.phase = "delay", !.err = error]
    ELSE [s EXCEPT !.phase = "failed", !.err = error]

\* Faulty variant: resolves as soon as one promise of the batch is fulfilled.
PromiseAny(sl, lo, hi) == \E k \in lo..hi : sl[k].phase = "done"

\* await Promise.all(taskDetailsPromises) resolves (services.js 155).
PromiseAll(sl, lo, hi) == \A k \in lo..hi : sl[k].phase = "done"

\* Faulty variant: the results are gathered as the callbacks finish, so a
\* task whose detail request had to be retried comes after the others.
BatchResultsByArrival(sl, lo, hi) ==
    LET batch == [k \in 1..(hi - lo + 1) |-> sl[lo + k - 1]]
        early == SelectSeq(batch, LAMBDA s : s.sent = 1)
        late == SelectSeq(batch, LAMBDA s : s.sent # 1)
    IN  [k \in 1..(hi - lo + 1) |-> (early \o late)[k].out]

\* Faulty variant: the batch is always cut from the head of taskList.
BatchResultsHead(sl, lo, hi) == [k \in 1..(hi - lo + 1) |-> sl[k].out]

\* batchResults, in the order of the promises handed to Promise.all.
BatchResults(sl, lo, hi) == [k \in 1..(hi - lo + 1) |-> sl[lo + k - 1].out]

\* Faulty variant: the catch block logs and hands back what was gathered so far.
Swallow(w, e) ==
    [w EXCEPT !.call.active = FALSE,
              !.m = AfterEnrich(w.m, w.call.taskDetailsData)]

\* Faulty variant: the rejection is caught and logged on its way up, and the
\* process lives on with the callbacks of the sibling tasks.
ThrowHandled(w, e) ==
    [w EXCEPT !.call.active = FALSE, !.m.error = e]

\* What the end of the process leaves of the callbacks: a request that is
\* out and a retry timer that is set are dropped with it.
Dropped(sl) ==
    [k \in 1..Len(sl) |->
        IF Active(sl[k]) THEN [sl[k] EXCEPT !.phase = "dropped"] ELSE sl[k]]

\* getTasksWithDetails throws e (services.js 161-164); the paginated fetch and
\* main() have no handler, so the process ends in this turn and the callbacks
\* of the sibling tasks never run again.
Throw(w, e) ==
    [w EXCEPT !.call.active = FALSE, !.m = Abort(w.m, e),
              !.slots = Dropped(w.slots)]

\* The rejection Promise.all reports: of the lowest-placed rejected promise
\* among those rejected in this callback.
Rejected(sl, lo, hi) == {k \in lo..hi : sl[k].phase = "failed"}
FirstRejected(sl, lo, hi) ==
    CHOOSE k \in Rejected(sl, lo, hi) : \A j \in Rejected(sl, lo, hi) : k <= j

\* batch.map(async item => ...) (services.js 132-153): every callback of the
\* batch runs to its first await.
StartBatch(w) ==
    LET lo == BatchLo(w.call)
        hi == BatchHi(w.call, w.slots)
        sl == [k \in 1..Len(w.slots) |->
                 IF k \in lo..hi THEN CallDetails(w.slots[k]) ELSE w.slots[k]]
        w1 == [w EXCEPT !.slots = sl]
    IN  IF Rejected(sl, lo, hi) # {}
        THEN Throw(w1, sl[FirstRejected(sl, lo, hi)].err)
        ELSE w1

\* The head of the for loop (services.js 131) and the return (159).
Loop(w) ==
    IF w.call.i < Len(w.slots)
    THEN StartBatch(w)
    ELSE [w EXCEPT !.call.active = FALSE,
                   !.m = AfterEnrich(w.m, w.call.taskDetailsData)]

\* A callback of the batch settled: Promise.all rejects on a rejection, and
\* resolves once every promise of the batch is fulfilled (services.js 155-157).
Settle(w) ==
    LET lo == BatchLo(w.call)
        hi == BatchHi(w.call, w.slots)
    IN  IF ~w.call.active THEN w
        ELSE IF Rejected(w.slots, lo, hi) # {}
        THEN Throw(w, w.slots[FirstRejected(w.slots, lo, hi)].err)
        ELSE IF PromiseAll(w.slots, lo, hi)
        THEN Loop([w EXCEPT !.call.taskDetailsData =
                               @ \o BatchResults(w.slots, lo, hi),
                            !.call.i = @ + BATCH_SIZE])
        ELSE w

\* getTasksWithDetails(taskList) up to its first await (services.js 126-155).
StartCall(mm, taskList) ==
    Loop([m |-> [mm EXCEPT !.pc = "enrich"],
          call |-> [active |-> TRUE, i |-> 0, taskDetailsData |-> <<>>],
          slots |-> [k \in 1..Len(taskList) |->
                       Slot(taskList[k].jobId, taskList[k].user_task_id)]])

World == [m |-> m, call |-> call, slots |-> slots]

Apply(w) == /\ m' = w.m
            /\ call' = w.call
            /\ slots' = w.slots

----------------------------------------------------------------------------
(* The remote side *)

\* paginate of a listing response: absent, an object without pages,
\* pages.next falsy, pages.next truthy.
PaginateShapes == {"none", "nopages", "last", "more"}

\* paginate?.pages.next guards paginate only: reading next of a missing
\* pages is a TypeError (services.js 85 / 118).
PagesMissing(p) == p = "nopages"

\* The listing responses of a remote side that always sends pages along
\* with paginate.
PagesPresent == PaginateShapes \ {"nopages"}

\* taskResponse.data.paginate?.pages.next (services.js 85 / 118).
HasNext(p) == p = "more"

SheetTitles(c) == {c.mapping[k].sheetName : k \in 1..Len(c.mapping)}

\* The process is alive: main() has not rejected (index.js 222). Only then
\* does a callback of a task run.
Running == m.pc # "aborted"

\* A request can be answered with an error: as often as cfg.failures says, or
\* any number of times.
CanFail == cfg.anyFailures \/ env.failLeft > 0
Failed(e) == IF cfg.anyFailures THEN e ELSE [e EXCEPT !.failLeft = @ - 1]

----------------------------------------------------------------------------
(* Actions *)

\* index.js 26-48, 128-133: the spreadsheet lookup answers; login is posted.
SpreadsheetExists ==
    /\ m.pc = "spreadsheetExists"
    /\ m' = [m EXCEPT !.pc = "login"]
    /\ UNCHANGED <<cfg, env, api, doc, call, slots>>

\* index.js 33-47, 129-131: not found, access denied or another error.
SpreadsheetExistsError ==
    /\ m.pc = "spreadsheetExists"
    /\ CanFail
    /\ \E code \in {404, 403, 500} :
          m' = Abort(m, Err("Error", code, "spreadsheet", 0, 0))
    /\ env' = Failed(env)
    /\ UNCHANGED <<cfg, api, doc, call, slots>>

\* services.js 39-60, index.js 133-138: the token arrives, the interceptors
\* are installed, the first sheet is looked up.
Login ==
    /\ m.pc = "login"
    /\ api' = [authorization |-> "Bearer token",
               interceptor |-> TRUE,
               logins |-> api.logins + 1]
    /\ m' = NextSheet(m)
    /\ UNCHANGED <<cfg, env, doc, call, slots>>

\* services.js 40: axios.post rejects; login has no handler.
LoginError ==
    /\ m.pc = "login"
    /\ CanFail
    /\ \E status \in cfg.statuses :
          m' = Abort(m, AxiosError(status, "login", 0, 1))
    /\ env' = Failed(env)
    /\ UNCHANGED <<cfg, api, doc, call, slots>>

\* index.js 50-63, 138-146: the titles arrive; skip a sheet that is not
\* among them, else start on its jobs.
SheetExists ==
    /\ m.pc = "sheetExists"
    /\ m' = AfterSheetCheck(m, SheetName(cfg, m.sheetIdx) \in doc.titles)
    /\ UNCHANGED <<cfg, env, api, doc, call, slots>>

\* index.js 64-67.
SheetExistsError ==
    /\ m.pc = "sheetExists"
    /\ CanFail
    /\ m' = Abort(m, Err("Error", 500, "sheet", m.sheetIdx, 0))
    /\ env' = Failed(env)
    /\ UNCHANGED <<cfg, api, doc, call, slots>>

\* services.js 70-80 / 103-113: a page arrives; its entries get the jobId
\* and getTasksWithDetails starts on them.
ListResponse ==
    /\ m.pc = "listing"
    /\ \E req \in m.inflight :
       \E n \in 0..Min(cfg.maxPageTasks, env.tasksLeft) :
       \E p \in cfg.paginate :
       \E miss \in (IF cfg.missingIds THEN 0..n ELSE {0}) :
          /\ HasNext(p) => m.currentPage < cfg.maxPages
          /\ LET taskList == [k \in 1..n |->
                    [jobId |-> req.job_id,
                     user_task_id |-> IF k = miss THEN 0 ELSE env.nextId + k - 1]]
                 m1 == [m EXCEPT !.inflight = @ \ {req},
                                 !.hasNext = HasNext(p),
                                 !.pagesMissing = PagesMissing(p),
                                 !.pages = Append(@, [n |-> n, more |-> p = "more"])]
             IN  Apply(StartCall(m1, taskList))
          /\ env' = [env EXCEPT !.tasksLeft = @ - n, !.nextId = @ + n]
    /\ UNCHANGED <<cfg, api, doc>>

\* services.js 70 / 103: the listing request rejects; nothing catches it.
ListError ==
    /\ m.pc = "listing"
    /\ CanFail
    /\ \E req \in m.inflight :
       \E status \in cfg.statuses :
          m' = Abort([m EXCEPT !.inflight = @ \ {req}],
                     Rejection(api, AxiosError(status, req.url, req.job_id, req.page)))
    /\ env' = Failed(env)
    /\ UNCHANGED <<cfg, api, doc, call, slots>>

\* services.js 171-174, 135-138: the detail response arrives, the
\* questionnaire lookup is called.
DetailResponse(k) ==
    /\ Running
    /\ slots[k].phase = "detail"
    /\ \E n \in cfg.itemCounts :
       \E stamp \in cfg.stamps :
          LET s == slots[k]
              s1 == [s EXCEPT !.details = DetailBody(s.jobId, s.id, n, stamp)]
          IN  Apply(Settle([World EXCEPT !.slots[k] = CallQuestionnaire(s1)]))
    /\ UNCHANGED <<cfg, env, api, doc>>

\* services.js 175-184: the detail request rejects.
DetailError(k) ==
    /\ Running
    /\ slots[k].phase = "detail"
    /\ CanFail
    /\ \E status \in cfg.statuses :
          LET s == slots[k]
              e == Rejection(api, AxiosError(status, "detail", s.id, s.sent))
          IN  Apply(Settle([World EXCEPT !.slots[k] = CatchDetails(s, e)]))
    /\ env' = Failed(env)
    /\ UNCHANGED <<cfg, api, doc>>

\* services.js 179-180: the delay is over; getTaskDetails runs again with
\* retries - 1.
RetryTimer(k) ==
    /\ Running
    /\ slots[k].phase = "delay"
    /\ LET s == slots[k]
           s1 == CallDetails([s EXCEPT !.retries = @ - 1, !.err = NoErr])
       IN  Apply(Settle([World EXCEPT !.slots[k] = s1]))
    /\ UNCHANGED <<cfg, env, api, doc>>

\* services.js 213-219, 140-152: the questionnaire arrives, the callback
\* returns the enriched task.
QuestResponse(k) ==
    /\ Running
    /\ slots[k].phase = "quest"
    /\ \E data \in cfg.answers :
          LET s == slots[k]
              s1 == [s EXCEPT !.phase = "done",
                              !.out = Enriched(s.id, s.details, data)]
          IN  Apply(Settle([World EXCEPT !.slots[k] = s1]))
    /\ UNCHANGED <<cfg, env, api, doc>>

\* services.js 220-222: the questionnaire request rejects.
QuestError(k) ==
    /\ Running
    /\ slots[k].phase = "quest"
    /\ CanFail
    /\ \E status \in cfg.statuses :
          LET s == slots[k]
              e == Rejection(api, AxiosError(status, "questionnaire", s.id, s.qsent))
          IN  Apply(Settle([World EXCEPT !.slots[k] = CatchQuestionnaire(s, e)]))
    /\ env' = Failed(env)
    /\ UNCHANGED <<cfg, api, doc>>

\* index.js 84-99: the sheet is cleared; the update is sent.
ClearResponse ==
    /\ m.pc = "clear"
    /\ doc' = [doc EXCEPT !.cells[SheetName(cfg, m.sheetIdx)] =
                              [state |-> "cleared", values |-> <<>>]]
    /\ m' = [m EXCEPT !.pc = "update"]
    /\ UNCHANGED <<cfg, env, api, call, slots>>

ClearError ==
    /\ m.pc = "clear"
    /\ CanFail
    /\ m' = Abort(m, Err("Error", 500, "clear", m.sheetIdx, 0))
    /\ env' = Failed(env)
    /\ UNCHANGED <<cfg, api, doc, call, slots>>

\* index.js 92-101, 215-217: the values are written; on to the next sheet.
UpdateResponse ==
    /\ m.pc = "update"
    /\ doc' = [doc EXCEPT !.cells[SheetName(cfg, m.sheetIdx)] =
                              [state |-> "written", values |-> m.values]]
    /\ m' = NextSheet(m)
    /\ UNCHANGED <<cfg, env, api, call, slots>>

UpdateError ==
    /\ m.pc = "update"
    /\ CanFail
    /\ m' = Abort(m, Err("Error", 500, "update", m.sheetIdx, 0))
    /\ env' = Failed(env)
    /\ UNCHANGED <<cfg, api, doc, call, slots>>

Next ==
    \/ SpreadsheetExists
    \/ SpreadsheetExistsError
    \/ Login
    \/ LoginError
    \/ SheetExists
    \/ SheetExistsError
    \/ ListResponse
    \/ ListError
    \/ \E k \in 1..Len(slots) : DetailResponse(k)
    \/ \E k \in 1..Len(slots) : DetailError(k)
    \/ \E k \in 1..Len(slots) : RetryTimer(k)
    \/ \E k \in 1..Len(slots) : QuestResponse(k)
    \/ \E k \in 1..Len(slots) : QuestError(k)
    \/ ClearResponse
    \/ ClearError
    \/ UpdateResponse
    \/ UpdateError

----------------------------------------------------------------------------
(* Initial states *)

\* GSHEET_TO_JOB_MAPPING (index.js 10), in key order.
Mapping == <<[sheetName |-> "A", jobIds |-> <<1, 2>>],
             [sheetName |-> "B", jobIds |-> <<3>>]>>
OneSheet == <<[sheetName |-> "A", jobIds |-> <<1>>]>>
\* The longest taskList a listing page gives when termination is examined.
LiveSlots == ShapeTasks
TwoSheets == <<[sheetName |-> "A", jobIds |-> <<1>>],
               [sheetName |-> "B", jobIds |-> <<2>>]>>
\* A mapping whose second job id is falsy (0 stands for "", 0, null).
FalsyJob == <<[sheetName |-> "A", jobIds |-> <<1, 0>>]>>

InitWith(c) ==
    /\ cfg = c
    /\ env = [failLeft |-> c.failures, tasksLeft |-> c.maxTasks, nextId |-> 1]
    /\ api = [authorization |-> "none", interceptor |-> FALSE, logins |-> 0]
    /\ \E titles \in SUBSET SheetTitles(c) :
          doc = [titles |-> titles,
                 cells |-> [n \in SheetTitles(c) |->
                              [state |-> "original", values |-> <<>>]]]
    /\ m = [pc |-> "spreadsheetExists", sheetIdx |-> 0, jobIdx |-> 0,
            endpoint |-> "", currentPage |-> 0, hasNext |-> FALSE,
            pagesMissing |-> FALSE,
            results |-> <<>>, tasks |-> <<>>, values |-> <<>>,
            error |-> NoErr, inflight |-> {}, requested |-> <<>>, pages |-> <<>>,
            fetched |-> [url |-> "", jobIdx |-> 0, requested |-> <<>>,
                         pages |-> <<>>, count |-> 0]]
    /\ call = [active |-> FALSE, i |-> 0, taskDetailsData |-> <<>>]
    /\ slots = <<>>

ItemCounts == {-1, 0, 1, 2}
Stamps == {NoStamp, BadStamp, Stamp(19, 10), Stamp(19, 20)}
AnswerLists ==
    {JsUndefined, JsArray(<<>>),
     JsArray(<<QA("Class", JsNull), QA("Class", JsString("4A")),
               QA("Name", JsString("Alice"))>>),
     JsArray(<<QA("Class", JsString("4B")), QA("Name", JsString("Bob")),
               QA("Name", JsString("Eve"))>>)}

\* The whole run on two sheets and three jobs, small pages.
Init ==
    InitWith([mapping |-> Mapping, maxPages |-> MaxPages, maxTasks |-> MaxTasks,
              maxPageTasks |-> MaxPageTasks, failures |-> MaxFailures,
              itemCounts |-> {0, 1}, stamps |-> {Stamp(19, 10)},
              answers |-> {JsArray(<<QA("Name", JsString("Alice"))>>)},
              statuses |-> {504, 401}, missingIds |-> TRUE,
              paginate |-> PagesPresent,
              anyFailures |-> FALSE])

\* One job, every shape of detail and questionnaire response.
InitShape ==
    InitWith([mapping |-> OneSheet, maxPages |-> FewPages, maxTasks |-> ShapeTasks,
              maxPageTasks |-> ShapeTasks, failures |-> MaxFailures,
              itemCounts |-> ItemCounts, stamps |-> Stamps,
              answers |-> AnswerLists,
              statuses |-> {504}, missingIds |-> FALSE,
              paginate |-> PagesPresent,
              anyFailures |-> FALSE])

\* One job whose single page holds more than one batch of tasks.
InitBatch ==
    InitWith([mapping |-> OneSheet, maxPages |-> FewPages, maxTasks |-> BigPage,
              maxPageTasks |-> BigPage, failures |-> MaxFailures,
              itemCounts |-> {1}, stamps |-> {Stamp(19, 10)},
              answers |-> {JsArray(<<QA("Name", JsString("Alice"))>>)},
              statuses |-> {504}, missingIds |-> FALSE,
              paginate |-> PagesPresent,
              anyFailures |-> FALSE])

\* Enough failing requests to exhaust the retries of a detail lookup.
InitRetry ==
    InitWith([mapping |-> TwoSheets, maxPages |-> FewPages, maxTasks |-> MaxTasks,
              maxPageTasks |-> MaxPageTasks, failures |-> RetryFailures,
              itemCounts |-> {1}, stamps |-> {Stamp(19, 10)},
              answers |-> {JsArray(<<QA("Name", JsString("Alice"))>>)},
              statuses |-> {504}, missingIds |-> FALSE,
              paginate |-> PagesPresent,
              anyFailures |-> FALSE])

\* Listings that hold entries without user_task_id or a paginate without
\* pages, and a job without id.
InitInput ==
    InitWith([mapping |-> FalsyJob, maxPages |-> FewPages, maxTasks |-> MaxTasks,
              maxPageTasks |-> MaxPageTasks, failures |-> MaxFailures,
              itemCounts |-> {1}, stamps |-> {Stamp(19, 10)},
              answers |-> {JsArray(<<QA("Name", JsString("Alice"))>>)},
              statuses |-> {504}, missingIds |-> TRUE,
              paginate |-> PaginateShapes,
              anyFailures |-> FALSE])

\* One job; every request can fail, any number of times.
InitLive ==
    InitWith([mapping |-> OneSheet, maxPages |-> FewPages, maxTasks |-> ShapeTasks,
              maxPageTasks |-> ShapeTasks, failures |-> MaxFailures,
              itemCounts |-> {1}, stamps |-> {Stamp(19, 10)},
              answers |-> {JsArray(<<QA("Name", JsString("Alice"))>>)},
              statuses |-> {504}, missingIds |-> FALSE,
              paginate |-> PaginateShapes,
              anyFailures |-> TRUE])

\* A listing request, the questionnaire request of task k is out: the states
\* in which its response or its error can arrive.
ListingOut == m.pc = "listing"
QuestionnaireOut(k) == k <= Len(slots) /\ Running /\ slots[k].phase = "quest"

\* Every request that is out is answered, with a response or an error; a
\* retry timer that is set fires.
\* For the listing and the questionnaire request the weak fairness condition
\* is written out, with the states above as the enabling condition.
Fairness ==
    /\ WF_vars(SpreadsheetExists \/ SpreadsheetExistsError)
    /\ WF_vars(Login \/ LoginError)
    /\ WF_vars(SheetExists \/ SheetExistsError)
    /\ []<>(~ListingOut) \/ []<><<ListResponse \/ ListError>>_vars
    /\ \A k \in 1..LiveSlots :
          /\ WF_vars(k <= Len(slots) /\ (DetailResponse(k) \/ DetailError(k)))
          /\ WF_vars(k <= Len(slots) /\ RetryTimer(k))
          /\ \/ []<>(~QuestionnaireOut(k))
             \/ []<><<k <= Len(slots) /\ (QuestResponse(k) \/ QuestError(k))>>_vars
    /\ WF_vars(ClearResponse \/ ClearError)
    /\ WF_vars(UpdateResponse \/ UpdateError)

Spec == Init /\ [][Next]_vars
SpecBatch == InitBatch /\ [][Next]_vars
SpecRetry == InitRetry /\ [][Next]_vars
SpecShape == InitShape /\ [][Next]_vars
SpecInput == InitInput /\ [][Next]_vars
SpecLive == InitLive /\ [][Next]_vars /\ Fairness

----------------------------------------------------------------------------
(* Properties *)

ActiveSlots == {k \in 1..Len(slots) : Active(slots[k])}
Stopped(mm) == mm.pc = "aborted"
PagesInOrder(r) == r = [j \in 1..Len(r) |-> j]
PageCounts(pages) == [j \in 1..Len(pages) |-> pages[j].n]

\* C1 as stated: a paginated fetch asks for pages 1, 2, ... in order, each
\* once, asks for nothing after the first page that does not signal a next
\* page, and then returns, without error, as many entries as the pages it
\* visited held together.
C1_PagesUntilNoNext ==
    /\ PagesInOrder(m.requested)
    /\ Len(m.pages) <= Len(m.requested)
    /\ \A j \in 1..Len(m.pages) :
          ~m.pages[j].more => Len(m.requested) <= j
    /\ m.fetched.url # "" =>
          LET f == m.fetched
          IN  /\ PagesInOrder(f.requested)
              /\ Len(f.pages) = Len(f.requested)
              /\ \A j \in 1..Len(f.pages) :
                    (~f.pages[j].more) <=> (j = Len(f.pages))
              /\ f.count = SumSeq(PageCounts(f.pages))
    /\ m.error.op # "paginate"

InBatch(k) == (k - 1) \div 5

\* C2: never more than 5 tasks are between the start of their detail lookup
\* and their result or failure, and no task of a batch has started while a
\* task of an earlier batch is unfinished.
C2_AtMostFiveInFlight ==
    /\ Cardinality(ActiveSlots) <= 5
    /\ \A j, k \in 1..Len(slots) :
          (InBatch(j) < InBatch(k) /\ slots[k].phase # "idle")
              => slots[j].phase = "done"

C2_Witness ==
    /\ Len(slots) = 6
    /\ Active(slots[6])
    /\ \A k \in 1..5 : slots[k].phase = "done"

Returned == ~call.active /\ call.i >= Len(slots)

\* C3: what getTasksWithDetails has gathered, and what it returns, holds at
\* place i the task built from the responses of the i-th task of its
\* input, and a returned sequence is as long as the input.
C3_PositionalResults ==
    /\ \A i \in 1..Len(call.taskDetailsData) :
          /\ i <= Len(slots)
          /\ call.taskDetailsData[i].src = slots[i].id
          /\ \A x \in 1..Len(call.taskDetailsData[i].items.v) :
                call.taskDetailsData[i].items.v[x].user_task_id = slots[i].id
    /\ Returned => Len(call.taskDetailsData) = Len(slots)

C3_Witness ==
    /\ Returned
    /\ Len(slots) = 6
    /\ Len(call.taskDetailsData) = 6

\* C4 as stated: one detail lookup never issues more than 10 requests.
C4_AtMostTenRequests == \A k \in 1..Len(slots) : slots[k].sent <= 10

\* C4 amended: one detail lookup never issues more than 11 requests (the
\* first and 10 retries), and when its request error propagates it is the
\* error of the 11th request.
C4_AtMostElevenRequests ==
    \A k \in 1..Len(slots) :
       /\ slots[k].sent <= 11
       /\ (slots[k].phase = "failed" /\ slots[k].err.op = "detail"
             /\ slots[k].err.kind # "Error")
            => /\ slots[k].sent = 11
               /\ slots[k].retries = 0
               /\ slots[k].err.n = 11

C4_Witness ==
    \E k \in 1..Len(slots) :
       slots[k].phase = "failed" /\ slots[k].err.op = "detail" /\ slots[k].sent = 11

DetailBodies(s) ==
    {DetailBody(s.jobId, s.id, n, stamp) : n \in cfg.itemCounts, stamp \in cfg.stamps}

C5_Step(k) ==
    LET s == slots[k]
        t == slots'[k]
    IN  /\ t.sent > s.sent => (s.phase \in {"idle", "delay"} /\ t.sent = s.sent + 1)
        /\ (s.phase = "detail" /\ t.phase = "quest")
              => (t.details \in DetailBodies(s) /\ t.sent = s.sent)
        /\ (s.phase = "detail" /\ t.phase = "delay") => s.retries > 0
        /\ (s.phase = "detail" /\ t.phase = "failed" /\ t.err.op = "detail")
              => /\ s.retries = 0
                 /\ t.err = handleError(AxiosError(t.err.status, "detail", s.id, s.sent))
                 /\ call.active => m'.error = t.err

\* C5: a new detail request of a task goes out only when its delay is over;
\* a detail response that succeeds ends the lookup with the body of that
\* response, however many requests failed before; a request failure leads
\* to the delay while retries remain, and otherwise the lookup throws the
\* error of that very request, which is the error the run fails with.
C5_RetryOutcome ==
    [][\A k \in 1..Len(slots) :
          (k <= Len(slots') /\ slots'[k].id = slots[k].id) => C5_Step(k)]_vars

C5_Witness ==
    \E k \in 1..Len(slots) : slots[k].phase = "quest" /\ slots[k].sent = 10

\* C6 as stated: every enriched task has arrays for items and for
\* taskQuestionAnswers.
C6_AlwaysArrays ==
    \A i \in 1..Len(call.taskDetailsData) :
       /\ IsArray(call.taskDetailsData[i].items)
       /\ IsArray(call.taskDetailsData[i].taskQuestionAnswers)

NewlyFailed ==
    {k \in 1..Len(slots') :
        /\ slots'[k].phase = "failed"
        /\ (k > Len(slots) \/ slots[k].id # slots'[k].id \/ slots[k].phase # "failed")}

LaterSheetsUntouched(mm, d) ==
    (Stopped(mm) /\ mm.error.op \in {"detail", "questionnaire"})
        => \A idx \in mm.sheetIdx..Len(cfg.mapping) :
              d.cells[SheetName(cfg, idx)].state = "original"

\* C7: when a lookup fails while main() is running, main() fails in the same
\* step with that error, nothing of the failed call reaches tasks, and from
\* then on no listing request goes out and no sheet changes; the sheet being
\* processed and the later ones are untouched.
C7_FailureAbortsRun ==
    [][/\ (NewlyFailed # {} /\ ~Stopped(m))
            => /\ m'.pc = "aborted"
               /\ m'.error \in {slots'[k].err : k \in NewlyFailed}
               /\ ~call'.active
               /\ m'.tasks = m.tasks
               /\ m'.inflight = {}
               /\ doc' = doc
       /\ Stopped(m)
            => /\ Stopped(m')
               /\ m'.error = m.error
               /\ m'.tasks = m.tasks
               /\ m'.inflight = {}
               /\ doc' = doc
       /\ LaterSheetsUntouched(m, doc)
       /\ LaterSheetsUntouched(m', doc')]_vars

C7_Witness ==
    /\ Stopped(m)
    /\ m.error.op = "detail"
    /\ m.error.n = 11
    /\ m.sheetIdx = 2
    /\ doc.cells["A"].state = "written"
    /\ doc.cells["B"].state = "original"

\* C8 as stated: both requests of a task are issued before either has
\* completed, so once the detail request is out the questionnaire request
\* is out too.
C8_BothIssuedTogether ==
    \A k \in 1..Len(slots) : slots[k].sent > 0 => slots[k].qsent > 0

\* C8 amended: the questionnaire request of a task is issued only after its
\* detail lookup has returned, and once; the lookups of different tasks of
\* a batch overlap.
C8_QuestionnaireAfterDetails ==
    \A k \in 1..Len(slots) :
       /\ slots[k].qsent <= 1
       /\ slots[k].qsent > 0
            => /\ slots[k].phase \notin {"idle", "detail", "delay"}
               /\ slots[k].details \in DetailBodies(slots[k])

C8_Witness ==
    \E j, k \in 1..Len(slots) :
       /\ InBatch(j) = InBatch(k)
       /\ slots[j].phase = "quest"
       /\ slots[k].phase = "delay"

\* C9: at most one listing request is outstanding, and while one is, no
\* enrichment is pending or running and every task listed before is done;
\* the request is for the page after the last page received, and the first
\* pending page of a job follows the return of the job's resolved fetch.
C9_ListingSequential ==
    /\ Cardinality(m.inflight) <= 1
    /\ m.inflight # {} =>
          /\ ~call.active
          /\ \A k \in 1..Len(slots) : slots[k].phase = "done"
          /\ \A r \in m.inflight :
                /\ r.page = Len(m.pages) + 1
                /\ (r.url = "pending" /\ r.page = 1)
                      => (m.fetched.url = "resolved" /\ m.fetched.jobIdx = m.jobIdx)

C9_Witness ==
    /\ \E r \in m.inflight : r.page = 2 /\ r.url = "pending"
    /\ Len(slots) = 1
    /\ slots[1].phase = "done"

NonTransient(status) == status \in {401, 403, 404}

\* C10 as stated: a request answered with an error that is not transient is
\* not retried, so no detail lookup waits for a retry after such an error.
C10_NoRetryOfNonTransient ==
    \A k \in 1..Len(slots) :
       ~(slots[k].phase = "delay" /\ NonTransient(slots[k].err.status))

C11_Step(k) ==
    LET s == slots[k]
        t == slots'[k]
    IN  /\ t.qsent > s.qsent => (s.phase = "detail" /\ s.qsent = 0 /\ t.qsent = 1)
        /\ s.phase = "quest"
              => /\ t.phase \in {"quest", "done", "failed", "dropped"}
                 /\ t.qsent = s.qsent
                 /\ t.sent = s.sent
                 /\ t.retries = s.retries
        /\ (s.phase = "quest" /\ t.phase = "failed")
              => /\ t.err = Rejection(api, AxiosError(t.err.status, "questionnaire", s.id, 1))
                 /\ call.active => (m'.pc = "aborted" /\ m'.error = t.err)

\* C11: a questionnaire lookup sends one request; when that request fails
\* the lookup fails in the same step with the error of that request, with no
\* delay and no second request, also for a task whose detail lookup was
\* retried, and the failure reaches main() in that step.
C11_QuestionnaireNotRetried ==
    [][\A k \in 1..Len(slots) :
          (k <= Len(slots') /\ slots'[k].id = slots[k].id) => C11_Step(k)]_vars

C11_Witness ==
    \E k \in 1..Len(slots) :
       /\ slots[k].phase = "failed"
       /\ slots[k].err.op = "questionnaire"
       /\ slots[k].err.kind = "errorData"
       /\ slots[k].sent >= 2
       /\ slots[k].qsent = 1
       /\ m.error = slots[k].err

InvalidInput(op) == Err("Error", 0, op, 0, 0)

\* C12: a detail lookup without userTaskId, and a questionnaire lookup
\* without userTaskId or without jobId, throws the invalid-input error before
\* any request: nothing is sent, no delay is entered and no retry is used
\* up, whatever number of retries the lookup was called with.
C12_MissingIdFailsAtOnce ==
    /\ \A k \in 1..Len(slots) :
          LET s == slots[k]
          IN  /\ s.id = 0
                    => /\ s.sent = 0
                       /\ s.qsent = 0
                       /\ s.retries = DEFAULT_RETRIES
                       /\ s.phase \in {"idle", "failed"}
                       /\ s.phase = "failed" => s.err = InvalidInput("detail")
              /\ (s.id # 0 /\ s.jobId = 0)
                    => /\ s.qsent = 0
                       /\ s.phase \notin {"quest", "done"}
                       /\ (s.phase = "failed" /\ s.err.op = "questionnaire")
                             => s.err = InvalidInput("questionnaire")
    /\ \A jobId \in {0, 1} : \A retries \in 0..DEFAULT_RETRIES :
          CallDetails([Slot(jobId, 0) EXCEPT !.retries = retries])
             = [Slot(jobId, 0) EXCEPT !.retries = retries, !.phase = "failed",
                                      !.err = InvalidInput("detail")]
    /\ \A jobId \in {0, 1} : \A id \in {0, 1} :
          (jobId = 0 \/ id = 0)
             => CallQuestionnaire(Slot(jobId, id))
                   = [Slot(jobId, id) EXCEPT !.phase = "failed",
                                             !.err = InvalidInput("questionnaire")]

C12_Witness ==
    \E k \in 1..Len(slots) :
       /\ m.error = InvalidInput("questionnaire")
       /\ slots[k].id # 0
       /\ slots[k].jobId = 0
       /\ slots[k].sent = 1
       /\ slots[k].phase = "failed"
       /\ slots[k].err = InvalidInput("questionnaire")

\* The remote side answers a request the same way whenever it is asked, and
\* one job feeds one sheet: the listing hands out the ids 1, 2, ... in order.
RemoteIsFunction ==
    /\ Cardinality(cfg.itemCounts) = 1
    /\ Cardinality(cfg.stamps) = 1
    /\ Cardinality(cfg.answers) = 1
    /\ Len(cfg.mapping) = 1
    /\ Len(JobIds(cfg, 1)) = 1

DetailOf(jobId, id) == CHOOSE b \in DetailBodies([jobId |-> jobId, id |-> id]) : TRUE
AnswersOf(jobId, id) == CHOOSE a \in cfg.answers : TRUE
ExpectedTask(id) ==
    LET jobId == JobIds(cfg, 1)[1]
    IN  Enriched(id, DetailOf(jobId, id), AnswersOf(jobId, id))
ExpectedValues ==
    <<HEADERS>> \o Flatten([id \in 1..(env.nextId - 1) |-> ExpectedTask(id)])

\* C13: when every request has one possible response, the rows of a sheet
\* are fixed by the listed tasks and those responses alone: in every
\* interleaving of the responses of a batch, and whether or not a request
\* was retried, tasks holds the listed tasks in listing order and the values
\* sent and written are the header and their rows in that order.
C13_RowsFixedByResponses ==
    RemoteIsFunction =>
       /\ m.tasks = [i \in 1..Len(m.tasks) |-> ExpectedTask(i)]
       /\ m.pc \in {"clear", "update"} => m.values = ExpectedValues
       /\ \A name \in SheetTitles(cfg) :
             doc.cells[name].state = "written"
                => doc.cells[name].values = ExpectedValues

C13_Witness ==
    /\ RemoteIsFunction
    /\ m.pc = "done"
    /\ doc.cells["A"].state = "written"
    /\ Len(doc.cells["A"].values) = 4
    /\ Len(slots) = 2
    /\ slots[1].sent = 2
    /\ slots[2].sent = 1
    /\ m.fetched.url = "pending"
    /\ m.fetched.count = 2

\* C14 as stated: flattening the tasks the aggregator returned raises no
\* error: main() never fails in the row loop, and no task gathered for a
\* sheet makes the row loop throw.
C14_FlattenNeverRaises ==
    /\ m.error.op # "flatten"
    /\ ~FlattenThrows(m.tasks)

\* The rows of the values built for the sheet, each with the task it came from.
RowsOfTasks ==
    {<<r, t>> \in (2..Len(m.values)) \X (1..Len(m.tasks)) :
        m.values[r][2] = m.tasks[t].src}
SubmitDate(r) == m.values[r][3]

\* C15 as stated: every row of a task whose timestamp is missing or
\* unparsable has the Submit Date "Invalid Date".
C15_MissingIsInvalidDate ==
    \A rt \in RowsOfTasks :
       m.tasks[rt[2]].submittedAt.k \in {"none", "bad"}
          => SubmitDate(rt[1]) = "Invalid Date"

\* C15 amended: formatDate gives a string for every timestamp; every row of
\* a task without timestamp has the empty Submit Date, every row of a task
\* with an unparsable one has "Invalid Date", and every other row has a date.
C15_MissingIsEmpty ==
    /\ \A stamp \in Stamps :
          formatDate(stamp) \in {"", "Invalid Date"} \cup {FormatDay(d) : d \in 19..21}
    /\ \A rt \in RowsOfTasks :
          LET k == m.tasks[rt[2]].submittedAt.k
          IN  /\ k = "none" => SubmitDate(rt[1]) = ""
              /\ k = "bad" => SubmitDate(rt[1]) = "Invalid Date"
              /\ k = "iso" => SubmitDate(rt[1]) \in {FormatDay(d) : d \in 19..21}

C15_Witness ==
    /\ doc.cells["A"].state = "written"
    /\ \E rt \in RowsOfTasks :
          /\ m.tasks[rt[2]].submittedAt = NoStamp
          /\ doc.cells["A"].values[rt[1]][3] = ""

LoggedIn(a) ==
    a = [authorization |-> "Bearer token", interceptor |-> TRUE, logins |-> 1]
NoFetchYet(mm, sl) == mm.requested = <<>> /\ mm.inflight = {} /\ sl = <<>>

\* What C16 says of one state: a listing request that is out carries the
\* token, a detail or questionnaire request is out only on the client login
\* has set up, and a run that failed in login has fetched nothing.
C16_State(mm, a, sl) ==
    /\ a.logins <= 1
    /\ \A r \in mm.inflight : LoggedIn(a) /\ r.authorization = "Bearer token"
    /\ (\E k \in 1..Len(sl) : sl[k].sent > 0 \/ sl[k].qsent > 0) => LoggedIn(a)
    /\ ~NoFetchYet(mm, sl) => LoggedIn(a)
    /\ mm.error.op = "login"
          => (Stopped(mm) /\ a.logins = 0 /\ NoFetchYet(mm, sl))

\* C16: the client's authorization is written once, by the one login, before
\* any listing, detail or questionnaire request, and never again; every such
\* request goes out on the logged-in client with the bearer token; a failed
\* login ends main() in that step with its error, with no second login and
\* no fetch ever.
C16_LoginOnceBeforeFetch ==
    [][/\ C16_State(m, api, slots)
       /\ C16_State(m', api', slots')
       /\ api' # api
             => /\ m.pc = "login"
                /\ api.logins = 0
                /\ LoggedIn(api')
                /\ NoFetchYet(m, slots)
       /\ (m.pc = "login" /\ m'.error.op = "login")
             => (m'.pc = "aborted" /\ m'.error.kind = "AxiosError" /\ api' = api)]_vars

C16_Witness ==
    /\ LoggedIn(api)
    /\ \E r \in m.inflight :
          r.url = "pending" /\ r.page = 2 /\ r.authorization = "Bearer token"
    /\ \E k \in 1..Len(slots) : slots[k].sent = 2 /\ slots[k].qsent = 1

\* C17 as stated: a sheet that exists and whose fetches all succeeded is
\* overwritten whatever the number of rows: main() never fails on the way
\* from the last fetch to the clearing of the sheet, and every existing sheet
\* main() has gone past holds the header row followed by the rows.
C17_OverwrittenForAnyRowCount ==
    /\ m.error.op # "writeToSheet"
    /\ \A idx \in 1..Len(cfg.mapping) :
          (SheetName(cfg, idx) \in doc.titles
             /\ (idx < m.sheetIdx \/ m.pc = "done") /\ ~Stopped(m))
            => /\ doc.cells[SheetName(cfg, idx)].state = "written"
               /\ Head(doc.cells[SheetName(cfg, idx)].values) = HEADERS

MissingSheets == SheetTitles(cfg) \ doc.titles
JobsOfMissingSheets ==
    UNION {{JobIds(cfg, idx)[j] : j \in 1..Len(JobIds(cfg, idx))} :
              idx \in {i \in 1..Len(cfg.mapping) : SheetName(cfg, i) \in MissingSheets}}

C18_State(mm, d) ==
    /\ \A name \in MissingSheets : d.cells[name].state = "original"
    /\ \A r \in mm.inflight : r.job_id \notin JobsOfMissingSheets
    /\ mm.pc \in {"listing", "enrich", "clear", "update"}
          => SheetName(cfg, mm.sheetIdx) \in d.titles

\* C18: when the sheet lookup answers and the configured name is not among
\* the titles, main() moves to the next configured sheet (or ends) and
\* nothing else changes: no request goes out and no task is gathered; no
\* listing request is ever made for a job of a missing sheet, a missing
\* sheet is never cleared or written, and the later sheets are processed.
C18_MissingSheetSkipped ==
    [][/\ C18_State(m, doc)
       /\ C18_State(m', doc')
       /\ (m.pc = "sheetExists" /\ SheetName(cfg, m.sheetIdx) \in MissingSheets
             /\ ~Stopped(m'))
            => /\ m' = [m EXCEPT
                          !.pc = IF m.sheetIdx < Len(cfg.mapping)
                                 THEN "sheetExists" ELSE "done",
                          !.sheetIdx = IF m.sheetIdx < Len(cfg.mapping)
                                       THEN @ + 1 ELSE @]
               /\ m'.error = NoErr
               /\ <<doc, env, api, call, slots>>' = <<doc, env, api, call, slots>>]_vars

C18_Witness ==
    /\ doc.titles = {"B"}
    /\ m.pc = "done"
    /\ doc.cells["A"].state = "original"
    /\ doc.cells["B"].state = "written"
    /\ Len(doc.cells["B"].values) = 3

\* A getTasksWithDetails call has failed: a task of it has failed, and the
\* call is over.
CallFailed(c, sl) == ~c.active /\ Rejected(sl, 1, Len(sl)) # {}
InFlight(sl) == {k \in 1..Len(sl) : Active(sl[k])}

\* C19: once a getTasksWithDetails call has failed, no detail request, no
\* questionnaire request and no retry delay of a task of that call is
\* outstanding, and no task of it sends a request afterwards: the failure
\* ends the process in the step in which it is reported, and the sibling
\* tasks of the batch end with it.
C19_NothingInFlightAfterFailure ==
    [][/\ CallFailed(call', slots') => InFlight(slots') = {}
       /\ CallFailed(call, slots)
             => /\ Len(slots') = Len(slots)
                /\ \A k \in 1..Len(slots) :
                      /\ slots'[k].sent = slots[k].sent
                      /\ slots'[k].qsent = slots[k].qsent
                      /\ slots'[k].phase = slots[k].phase]_vars

C19_Witness ==
    /\ CallFailed(call, slots)
    /\ \E j, k \in 1..Len(slots) :
          /\ slots[j].phase = "failed"
          /\ slots[j].err = m.error
          /\ slots[j].err.op = "questionnaire"
          /\ InBatch(j) = InBatch(k)
          /\ slots[k].phase = "dropped"
          /\ slots[k].qsent = 1

RunEnded == m.pc = "done" \/ Stopped(m)
InLookup(k) == k <= Len(slots) /\ slots[k].phase \in {"detail", "delay"}

\* C20: when every request is answered and every listing ends at some page,
\* the run ends, completed or aborted; every detail lookup that has started
\* ends, with at most 11 requests sent even when all of them fail; and
\* every getTasksWithDetails call that is waiting for a batch stops waiting.
C20_RunTerminates ==
    /\ <>RunEnded
    /\ \A k \in 1..LiveSlots : InLookup(k) ~> ~InLookup(k)
    /\ call.active ~> ~call.active
    /\ [](\A k \in 1..Len(slots) : slots[k].sent <= DEFAULT_RETRIES + 1)

C20_Witness ==
    /\ m.pc = "aborted"
    /\ m.error.op = "detail"
    /\ ~call.active
    /\ \E k \in 1..Len(slots) :
          /\ slots[k].phase = "failed"
          /\ slots[k].sent = DEFAULT_RETRIES + 1
          /\ slots[k].err = m.error

====
